---- MODULE Spec2Model ----
(***************************************************************************)
(* Credential handoff of backend-sample/ext_auth_endpoints.py.             *)
(*                                                                         *)
(* Two deployments of the same handoff are modelled, chosen at start-up:   *)
(*   backend = "redis"  : the two FastAPI handlers over redis_client       *)
(*   backend = "memory" : callers of an InMemoryAuthStore instance, whose  *)
(*                        take is get(key) followed by delete(key), as the *)
(*                        status handler does on the cache                 *)
(* One step of a worker is one call on the cache (redis) or one statement  *)
(* on the two dicts (in-memory store). Requests over redis interleave call *)
(* by call; calls on an in-memory store interleave when its callers run on *)
(* threads (sched = "threads") and not on one event loop (sched = "loop"). *)
(* Every write carries a payload of its own (a token is issued per login), *)
(* so a payload names the write it came from.                              *)
(***************************************************************************)
EXTENDS Integers, FiniteSets, Sequences, TLC

\* ---------------------------------------------------------------- bounds
\* the clock runs from 0 to MaxTime
MaxTime == 3
\* writes (completions, or set calls) in one behaviour
MaxPuts == 2
\* requests (handler calls, or store method calls by a caller) in one behaviour
MaxCalls == 4
\* timedelta(minutes=5) of the completion handler, and the default
\* ttl_seconds = 300 of InMemoryAuthStore.set, in clock ticks
TtlTicks == 2

Workers == {"w1", "w2"}
SessionIds == {"sess-1", "sess-2"}
Null == "None"

\* the request body (clerk_token, user_data) of the n-th completion; the
\* value of the n-th InMemoryAuthStore.set is the same dict
Body(n) == [clerk_token |-> <<"tok", n>>, user_data |-> <<"id", n>>]

VARIABLES
  backend,   \* which store the deployment uses
  sched,     \* how a server process runs its requests: "loop" or "threads"
  now,       \* datetime.utcnow(), in ticks
  cache,     \* redis: cache key -> NoEntry or [value, expire_at]
  store,     \* InMemoryAuthStore.store: the dict key -> value
  expiry,    \* InMemoryAuthStore.expiry: the dict key -> expiry instant
  pc,        \* per worker: position in the handler / method it runs
  arg,       \* per worker: arguments of the running call
  loc,       \* per worker: local variables of the running call
  calls,     \* number of requests begun so far
  last,      \* the response the latest step produced (NoResp: it produced none)
  puts,      \* history: the writes so far, each its key and expiry instant
  deliv,     \* history: per write, deliveries of its payload (0, 1, many)
  gone       \* history: the writes whose entry a delete has removed

vars == <<backend, sched, now, cache, store, expiry, pc, arg, loc, calls, last, puts,
          deliv, gone>>

\* ------------------------------------------------------------- helpers
\* f"ext_auth:{session_id}"
cache_key(session_id) == <<"ext_auth", session_id>>
CacheKeys == { cache_key(s) : s \in SessionIds }

\* datetime.isoformat()
isoformat(t) == <<"iso", t>>

\* json.dumps of the cache_data dict: the text, fields in insertion order
json_dumps(d) == <<"{", d.clerk_token, d.user_data, d.timestamp, "}">>

\* a json.loads that hands the fields back in another order
json_loads_swapped(s) ==
  [clerk_token |-> s[3], user_data |-> s[2], timestamp |-> s[4]]

\* json.loads of such a text
json_loads(s) == [clerk_token |-> s[2], user_data |-> s[3], timestamp |-> s[4]]

NoEntry == [value |-> Null, expire_at |-> 0]
NoArg == [key |-> Null, n |-> 0, ttl |-> 0]
NoLoc == [op |-> Null, cached_data |-> Null, expired_keys |-> {}, cur |-> Null,
          chk |-> 0, g |-> 0, late |-> FALSE, fresh |-> FALSE, rw |-> 0]

\* what a response carries when it carries no payload: clerk_token and
\* user_data are None (the defaults of ExtAuthStatus)
NoPayload == [clerk_token |-> Null, user_data |-> Null]

\* the latest write to key k so far (0: none); the entry a read finds is its
Max(S) == IF S = {} THEN 0 ELSE CHOOSE x \in S : \A y \in S : y <= x
LastPut(k) == Max({ n \in 1..Len(puts) : puts[n].key = k })
TotalPuts == Len(puts)

\* the payload of the latest write to k has been delivered already
LatestDelivered(k) == LastPut(k) > 0 /\ deliv[LastPut(k)] > 0

\* the expiry instant of write n: its insertion time + ttl
Expires(n) == IF n = 0 THEN 0 ELSE puts[n].expires

\* write n has completed: no set call that made it is still running
Acked(n) == \A w \in Workers : ~ (loc[w].op = "set" /\ arg[w].n = n)

\* the write a read of k beginning now must observe (0: none): the latest,
\* when it has completed
MustSee(k) == IF LastPut(k) > 0 /\ Acked(LastPut(k)) THEN LastPut(k) ELSE 0

\* a read of k that began when rw was the write to observe is still owed its
\* payload now: not overwritten, not deleted or taken, not expired
Owed(k, rw) ==
  /\ rw > 0
  /\ LastPut(k) = rw
  /\ rw \notin gone
  /\ now < Expires(rw)

\* a call's response. form: "return" (a value) or "raise" (an exception);
\* found: it carries a payload.
\* History fields: g, the write whose payload the call read (0: none);
\* late, that write had been delivered before the call read it; fresh, the
\* entry's expiry instant was not reached when the call checked it; owed,
\* the call had to find a payload (see Owed); failed, a store operation of
\* the call failed.
Response(op, key, form, success, status, found, payload, code, l, owed) ==
  [op |-> op, key |-> key, form |-> form, success |-> success,
   status |-> status, found |-> found, payload |-> payload,
   status_code |-> code, g |-> l.g, late |-> l.late, fresh |-> l.fresh,
   owed |-> owed, failed |-> FALSE]
NoResp == Response(Null, Null, "none", Null, Null, FALSE, NoPayload, Null, NoLoc, FALSE)

\* the response of a call in which a store operation failed or not
Failed(response, failed) == [response EXCEPT !.failed = failed]

\* the entry of the latest write to k is removed by a delete: by its pop
\* from either dict
Removed(k) == IF LastPut(k) > 0 THEN gone \cup {LastPut(k)} ELSE gone

\* saturating delivery count: 0, 1, 2 = more than once
Bump(c) == IF c = 0 THEN 1 ELSE 2

Delivered(g) == IF g = 0 THEN deliv ELSE [deliv EXCEPT ![g] = Bump(@)]

\* ------------------------------------------------------------ redis
\* the server's view of a key: an expired key is gone whether or not purged
redis_live(k) == cache[k] # NoEntry /\ now < cache[k].expire_at

\* a get that answers with whatever key is live
redis_get_any(k) ==
  IF \E j \in CacheKeys : redis_live(j)
  THEN cache[CHOOSE j \in CacheKeys : redis_live(j)].value
  ELSE Null

\* redis_client.get(key) with decode_responses=True: the text or None
redis_get(k) == IF redis_live(k) THEN cache[k].value ELSE Null

\* a set that keeps the time to live of the key it overwrites (SET ... KEEPTTL)
redis_set_keepttl(k, ttl, value) ==
  [cache EXCEPT ![k] = [value |-> value,
                        expire_at |-> IF redis_live(k) THEN cache[k].expire_at
                                      ELSE now + ttl]]

\* redis_client.setex(key, timedelta, value)
redis_setex(k, ttl, value) ==
  [cache EXCEPT ![k] = [value |-> value, expire_at |-> now + ttl]]

\* redis_client.delete(key)
redis_delete(k) == [cache EXCEPT ![k] = NoEntry]

\* outcomes of one call on the cache: it answers, it fails before the
\* command is applied, or it fails after (the reply is lost)
Outcomes == {"ok", "fail_before", "fail_after"}

\* the server purges an expired key (native expiration)
RedisExpire(k) ==
  /\ backend = "redis"
  /\ cache[k] # NoEntry
  /\ ~ redis_live(k)
  /\ cache' = redis_delete(k)
  /\ last' = NoResp
  /\ UNCHANGED <<backend, sched, calls, now, store, expiry, pc, arg, loc, puts, deliv, gone>>

\* ------------------------------------------------ GET /ext-auth-status
status_pending(sid, l, owed) ==
  Response("status", sid, "return", TRUE, "pending", FALSE, NoPayload, Null, l, owed)

status_completed(sid, auth_data, l) ==
  Response("status", sid, "return", TRUE, "completed", TRUE,
           [clerk_token |-> auth_data.clerk_token,
            user_data |-> auth_data.user_data], Null, l, FALSE)

\* an except branch that answers "pending"
status_error_pending(l) == status_pending(Null, l, FALSE)

\* the error response names no session
status_error(l) ==
  Response("status", Null, "return", FALSE, Null, FALSE, NoPayload, 500, l, FALSE)

\* lines 36-49: the cache read, and the pending response when nothing is there
get_extension_auth_status(w, sid, outcome) ==
  /\ backend = "redis"
  /\ pc[w] = "idle"
  /\ calls < MaxCalls
  /\ calls' = calls + 1
  /\ LET cached_data == redis_get(cache_key(sid))
     IN  IF outcome # "ok"
         THEN /\ last' = Failed(status_error(NoLoc), TRUE)
              /\ UNCHANGED <<pc, arg, loc>>
         ELSE IF cached_data = Null
         THEN /\ last' = status_pending(sid, NoLoc, Owed(sid, MustSee(sid)))
              /\ UNCHANGED <<pc, arg, loc>>
         ELSE /\ pc' = [pc EXCEPT ![w] = "status_delete"]
              /\ arg' = [arg EXCEPT ![w] = [NoArg EXCEPT !.key = sid]]
              /\ loc' = [loc EXCEPT ![w] =
                           [NoLoc EXCEPT !.op = "status",
                                         !.cached_data = cached_data,
                                         !.g = LastPut(sid),
                                         !.late = LatestDelivered(sid),
                                         !.fresh = now < Expires(LastPut(sid))]]
              /\ last' = NoResp
  /\ UNCHANGED <<backend, sched, now, cache, store, expiry, puts, deliv, gone>>

\* lines 51-73: parse, delete from the cache, the completed response
get_extension_auth_status_delete(w, outcome) ==
  /\ backend = "redis"
  /\ pc[w] = "status_delete"
  /\ LET sid == arg[w].key
         auth_data == json_loads(loc[w].cached_data)
     IN  /\ IF outcome = "fail_before"
            THEN UNCHANGED <<cache, gone>>
            ELSE /\ cache' = redis_delete(cache_key(sid))
                 /\ gone' = Removed(sid)
         /\ IF outcome = "ok"
            THEN /\ last' = status_completed(sid, auth_data, loc[w])
                 /\ deliv' = Delivered(loc[w].g)
            ELSE /\ last' = Failed(status_error(loc[w]), TRUE)
                 /\ UNCHANGED <<deliv>>
  /\ pc' = [pc EXCEPT ![w] = "idle"]
  /\ arg' = [arg EXCEPT ![w] = NoArg]
  /\ loc' = [loc EXCEPT ![w] = NoLoc]
  /\ UNCHANGED <<backend, sched, calls, now, store, expiry, puts>>

\* --------------------------------------------- POST /ext-auth-complete
complete_stored(sid) ==
  Response("complete", sid, "return", TRUE, "stored", FALSE, NoPayload, 200,
           NoLoc, FALSE)

\* raise HTTPException(status_code=500, detail=...)
complete_error ==
  Response("complete", Null, "raise", Null, Null, FALSE, NoPayload, 500,
           NoLoc, FALSE)

\* lines 85-118
complete_extension_auth(w, sid, request, outcome) ==
  /\ backend = "redis"
  /\ pc[w] = "idle"
  /\ calls < MaxCalls
  /\ calls' = calls + 1
  /\ TotalPuts < MaxPuts
  /\ LET cache_data == [clerk_token |-> request.clerk_token,
                        user_data |-> request.user_data,
                        timestamp |-> isoformat(now)]
     IN  IF outcome = "fail_before"
         THEN UNCHANGED <<cache, puts>>
         ELSE /\ cache' = redis_setex(cache_key(sid), TtlTicks,
                                      json_dumps(cache_data))
              /\ puts' = Append(puts, [key |-> sid, expires |-> now + TtlTicks])
  /\ last' = IF outcome = "ok" THEN complete_stored(sid)
             ELSE Failed(complete_error, TRUE)
  /\ UNCHANGED <<backend, sched, now, store, expiry, pc, arg, loc, deliv, gone>>

\* ------------------------------------------------- InMemoryAuthStore
\* no other worker is inside a call
Solo(w) == \A v \in Workers \ {w} : pc[v] = "idle"

\* worker w may take a step in the store. The handlers are async def without
\* an await, so on a process's event loop a request runs to its end before
\* the next begins and the calls on the process's store do not interleave;
\* callers on threads interleave statement by statement.
Runs(w) == backend = "memory" /\ (sched = "threads" \/ Solo(w))

\* d.setdefault(key, value): an existing key keeps its value
dict_set_default(d, key, value) ==
  IF key \in DOMAIN d THEN d
  ELSE [k \in DOMAIN d \cup {key} |-> IF k = key THEN value ELSE d[k]]

\* d.get(key, None): nothing is removed
dict_pop_keep(d, key) == d

\* d.popitem(): removes an item whatever its key (none from an empty dict)
dict_popitem(d, key) ==
  IF DOMAIN d = {} THEN d
  ELSE LET x == CHOOSE x \in DOMAIN d : TRUE
       IN  [k \in DOMAIN d \ {x} |-> d[k]]

\* a Python dict is a function on the keys it holds
\* d[key] = value
dict_set(d, key, value) ==
  [k \in DOMAIN d \cup {key} |-> IF k = key THEN value ELSE d[k]]

\* d.pop(key, None)
dict_pop(d, key) == [k \in DOMAIN d \ {key} |-> d[k]]

\* key in d
dict_has(d, key) == key \in DOMAIN d

EmptyDict == [k \in {} |-> Null]

\* a store method's return value (payload: the value, Null for None) ...
returned(op, key, found, payload, l, owed) ==
  Response(op, key, "return", Null, Null, found, payload, Null, l, owed)

\* ... or the exception it raised (KeyError, RuntimeError)
raised(op, key, error, l, owed) ==
  Response(op, key, "raise", Null, error, FALSE, NoPayload, Null, l, owed)

\* the call of worker w ends
Return(w, response) ==
  /\ pc' = [pc EXCEPT ![w] = "idle"]
  /\ arg' = [arg EXCEPT ![w] = NoArg]
  /\ loc' = [loc EXCEPT ![w] = NoLoc]
  /\ last' = response

\* where a call goes on after _cleanup_expired returned
AfterCleanup(w) ==
  IF loc[w].op = "set"
  THEN Return(w, returned("set", arg[w].key, FALSE, NoPayload, loc[w], FALSE))
  ELSE /\ pc' = [pc EXCEPT ![w] = "get_check"]
       /\ loc' = [loc EXCEPT ![w].expired_keys = {}, ![w].cur = Null]
       /\ last' = NoResp
       /\ UNCHANGED arg

\* line 128: self.store[key] = value
set(w, key, value, ttl_seconds) ==
  /\ Runs(w)
  /\ pc[w] = "idle"
  /\ calls < MaxCalls
  /\ calls' = calls + 1
  /\ TotalPuts < MaxPuts
  /\ store' = dict_set(store, key, value)
  /\ puts' = Append(puts, [key |-> key, expires |-> now + ttl_seconds])
  /\ pc' = [pc EXCEPT ![w] = "set_expiry"]
  /\ arg' = [arg EXCEPT ![w] = [key |-> key, n |-> TotalPuts + 1,
                                ttl |-> ttl_seconds]]
  /\ loc' = [loc EXCEPT ![w] = [NoLoc EXCEPT !.op = "set"]]
  /\ last' = NoResp
  /\ UNCHANGED <<backend, sched, now, cache, expiry, deliv, gone>>

\* line 129: self.expiry[key] = utcnow() + timedelta(seconds=ttl_seconds)
set_expiry(w) ==
  /\ Runs(w)
  /\ pc[w] = "set_expiry"
  /\ expiry' = dict_set(expiry, arg[w].key, now + arg[w].ttl)
  /\ puts' = [puts EXCEPT ![arg[w].n].expires = now + arg[w].ttl]
  /\ pc' = [pc EXCEPT ![w] = "cleanup_scan"]
  /\ last' = NoResp
  /\ UNCHANGED <<backend, sched, calls, now, cache, store, arg, loc, deliv, gone>>

\* a scan that takes for expired what expires within the coming ttl
expired_at_early(t) == { k \in DOMAIN expiry : expiry[k] < t + TtlTicks }

\* a scan that takes a key for expired at its expiry instant already
expired_at_inclusive(t) == { k \in DOMAIN expiry : expiry[k] <= t }

\* the expired keys a scan at instant t finds
expired_at(t) == { k \in DOMAIN expiry : expiry[k] < t }

\* lines 143-145: now = utcnow();
\* expired_keys = [k for k, exp in self.expiry.items() if exp < now]
\* in a call with arguments a and locals l; the scan is one step
Scan(w, a, l) ==
  LET expired_keys == expired_at(now)
  IN  IF expired_keys = {}
      THEN IF l.op = "set"
           THEN Return(w, returned("set", a.key, FALSE, NoPayload, l, FALSE))
           ELSE /\ pc' = [pc EXCEPT ![w] = "get_check"]
                /\ arg' = [arg EXCEPT ![w] = a]
                /\ loc' = [loc EXCEPT ![w] = l]
                /\ last' = NoResp
      ELSE /\ pc' = [pc EXCEPT ![w] = "cleanup_delete"]
           /\ arg' = [arg EXCEPT ![w] = a]
           /\ loc' = [loc EXCEPT ![w] = [l EXCEPT !.expired_keys = expired_keys]]
           /\ last' = NoResp

\* line 130: set calls _cleanup_expired
cleanup_expired(w) ==
  /\ Runs(w)
  /\ pc[w] = "cleanup_scan"
  /\ Scan(w, arg[w], loc[w])
  /\ UNCHANGED <<backend, sched, calls, now, cache, store, expiry, puts, deliv, gone>>

\* line 133: get calls _cleanup_expired
get(w, key) ==
  /\ Runs(w)
  /\ pc[w] = "idle"
  /\ calls < MaxCalls
  /\ calls' = calls + 1
  /\ Scan(w, [NoArg EXCEPT !.key = key],
          [NoLoc EXCEPT !.op = "take", !.rw = MustSee(key)])
  /\ UNCHANGED <<backend, sched, now, cache, store, expiry, puts, deliv, gone>>

\* lines 146-147, 140: the next key of expired_keys; self.store.pop(key, None)
cleanup_delete(w) ==
  /\ Runs(w)
  /\ pc[w] = "cleanup_delete"
  /\ \E key \in loc[w].expired_keys :
       /\ store' = dict_pop(store, key)
       /\ loc' = [loc EXCEPT ![w].cur = key,
                             ![w].expired_keys = @ \ {key}]
  /\ pc' = [pc EXCEPT ![w] = "cleanup_delete_expiry"]
  /\ last' = NoResp
  /\ UNCHANGED <<backend, sched, calls, now, cache, expiry, arg, puts, deliv, gone>>

\* line 141 within the sweep: self.expiry.pop(key, None)
cleanup_delete_expiry(w) ==
  /\ Runs(w)
  /\ pc[w] = "cleanup_delete_expiry"
  /\ expiry' = dict_pop(expiry, loc[w].cur)
  /\ IF loc[w].expired_keys = {}
     THEN AfterCleanup(w)
     ELSE /\ pc' = [pc EXCEPT ![w] = "cleanup_delete"]
          /\ loc' = [loc EXCEPT ![w].cur = Null]
          /\ last' = NoResp
          /\ UNCHANGED arg
  /\ UNCHANGED <<backend, sched, calls, now, cache, store, puts, deliv, gone>>

\* utcnow() <= expiry: the expiry instant itself still counts as live
not_expired_inclusive(t, exp) == t <= exp

\* line 135: datetime.utcnow() < self.expiry[key]
not_expired(t, exp) == t < exp

\* line 134: if key in self.store and key in self.expiry
get_check(w) ==
  /\ Runs(w)
  /\ pc[w] = "get_check"
  /\ IF dict_has(store, arg[w].key) /\ dict_has(expiry, arg[w].key)
     THEN /\ pc' = [pc EXCEPT ![w] = "get_compare"]
          /\ last' = NoResp
          /\ UNCHANGED <<arg, loc>>
     ELSE Return(w, returned("take", arg[w].key, FALSE, NoPayload, loc[w],
                             Owed(arg[w].key, loc[w].rw)))
  /\ UNCHANGED <<backend, sched, calls, now, cache, store, expiry, puts, deliv, gone>>

\* line 135: if datetime.utcnow() < self.expiry[key]
get_compare(w) ==
  /\ Runs(w)
  /\ pc[w] = "get_compare"
  /\ IF ~ dict_has(expiry, arg[w].key)
     THEN Return(w, raised("take", arg[w].key, "KeyError", loc[w],
                           Owed(arg[w].key, loc[w].rw)))
     ELSE IF not_expired(now, expiry[arg[w].key])
     THEN /\ pc' = [pc EXCEPT ![w] = "get_return"]
          /\ loc' = [loc EXCEPT ![w].chk = now]
          /\ last' = NoResp
          /\ UNCHANGED arg
     ELSE Return(w, returned("take", arg[w].key, FALSE, NoPayload, loc[w],
                             Owed(arg[w].key, loc[w].rw)))
  /\ UNCHANGED <<backend, sched, calls, now, cache, store, expiry, puts, deliv, gone>>

\* line 136: return self.store[key]; the caller goes on to delete(key)
get_return(w) ==
  /\ Runs(w)
  /\ pc[w] = "get_return"
  /\ LET key == arg[w].key
     IN  IF ~ dict_has(store, key)
         THEN Return(w, raised("take", key, "KeyError", loc[w],
                               Owed(key, loc[w].rw)))
         ELSE /\ pc' = [pc EXCEPT ![w] = "delete"]
              /\ loc' = [loc EXCEPT ![w].cached_data = store[key],
                                    ![w].g = LastPut(key),
                                    ![w].late = LatestDelivered(key),
                                    ![w].chk = 0,
                                    ![w].fresh =
                                       loc[w].chk < Expires(LastPut(key))]
              /\ last' = NoResp
              /\ UNCHANGED arg
  /\ UNCHANGED <<backend, sched, calls, now, cache, store, expiry, puts, deliv, gone>>

\* line 140: self.store.pop(key, None), of a delete call or of a take's delete
delete(w, key) ==
  /\ Runs(w)
  /\ \/ /\ pc[w] = "idle"
        /\ calls < MaxCalls
        /\ calls' = calls + 1
        /\ arg' = [arg EXCEPT ![w] = [NoArg EXCEPT !.key = key]]
        /\ loc' = [loc EXCEPT ![w] = [NoLoc EXCEPT !.op = "delete"]]
     \/ /\ pc[w] = "delete"
        /\ key = arg[w].key
        /\ UNCHANGED <<arg, loc, calls>>
  /\ store' = dict_pop(store, key)
  /\ gone' = Removed(key)
  /\ pc' = [pc EXCEPT ![w] = "delete_expiry"]
  /\ last' = NoResp
  /\ UNCHANGED <<backend, sched, now, cache, expiry, puts, deliv>>

\* a delete that ends after line 140: expiry keeps the key
delete_store_only(w) ==
  /\ Runs(w)
  /\ pc[w] = "delete_expiry"
  /\ gone' = Removed(arg[w].key)
  /\ IF loc[w].op = "take"
     THEN /\ Return(w, returned("take", arg[w].key, TRUE, loc[w].cached_data,
                                loc[w], FALSE))
          /\ deliv' = Delivered(loc[w].g)
     ELSE /\ Return(w, returned("delete", arg[w].key, FALSE, NoPayload, loc[w],
                                FALSE))
          /\ UNCHANGED <<deliv>>
  /\ UNCHANGED <<backend, sched, calls, now, cache, store, expiry, puts>>

\* line 141: self.expiry.pop(key, None); a take hands its value to the caller
delete_expiry(w) ==
  /\ Runs(w)
  /\ pc[w] = "delete_expiry"
  /\ expiry' = dict_pop(expiry, arg[w].key)
  /\ gone' = Removed(arg[w].key)
  /\ IF loc[w].op = "take"
     THEN /\ Return(w, returned("take", arg[w].key, TRUE, loc[w].cached_data,
                                loc[w], FALSE))
          /\ deliv' = Delivered(loc[w].g)
     ELSE /\ Return(w, returned("delete", arg[w].key, FALSE, NoPayload, loc[w],
                                FALSE))
          /\ UNCHANGED <<deliv>>
  /\ UNCHANGED <<backend, sched, calls, now, cache, store, puts>>

\* ------------------------------------------------------------- clock
Tick ==
  /\ now < MaxTime
  /\ now' = now + 1
  /\ last' = NoResp
  /\ UNCHANGED <<backend, sched, calls, cache, store, expiry, pc, arg, loc, puts, deliv, gone>>

\* ------------------------------------------------------ specification
Init ==
  /\ backend \in {"redis", "memory"}
  /\ sched \in {"loop", "threads"}
  /\ backend = "redis" => sched = "loop"
  /\ now = 0
  /\ cache = [k \in CacheKeys |-> NoEntry]
  /\ store = EmptyDict
  /\ expiry = EmptyDict
  /\ pc = [w \in Workers |-> "idle"]
  /\ arg = [w \in Workers |-> NoArg]
  /\ loc = [w \in Workers |-> NoLoc]
  /\ calls = 0
  /\ last = NoResp
  /\ puts = <<>>
  /\ deliv = [g \in 1..MaxPuts |-> 0]
  /\ gone = {}

RedisNext(w) ==
  \/ \E sid \in SessionIds, o \in Outcomes : get_extension_auth_status(w, sid, o)
  \/ \E o \in Outcomes : get_extension_auth_status_delete(w, o)
  \/ \E sid \in SessionIds, o \in Outcomes :
       complete_extension_auth(w, sid, Body(TotalPuts + 1), o)

MemoryNext(w) ==
  \/ \E key \in SessionIds : set(w, key, Body(TotalPuts + 1), TtlTicks)
  \/ set_expiry(w)
  \/ \E key \in SessionIds : get(w, key)
  \/ cleanup_expired(w)
  \/ cleanup_delete(w)
  \/ cleanup_delete_expiry(w)
  \/ get_check(w)
  \/ get_compare(w)
  \/ get_return(w)
  \/ \E key \in SessionIds : delete(w, key)
  \/ delete_expiry(w)

WorkerNext(w) == RedisNext(w) \/ MemoryNext(w)

Next ==
  \/ Tick
  \/ \E k \in CacheKeys : RedisExpire(k)
  \/ \E w \in Workers : WorkerNext(w)

\* every deployment
Spec == Init /\ [][Next]_vars

\* the deployment the module is written for: one event loop per process
LoopInit == Init /\ sched = "loop"

LoopSpec == LoopInit /\ [][Next]_vars

\* the handlers over redis, the processes' requests interleaved
RedisStep ==
  \/ Tick
  \/ \E k \in CacheKeys : RedisExpire(k)
  \/ \E w \in Workers : RedisNext(w)

RedisInit == Init /\ backend = "redis"

RedisSpec == RedisInit /\ [][RedisStep]_vars

\* callers of an InMemoryAuthStore on threads
MemoryStep ==
  \/ Tick
  \/ \E w \in Workers : MemoryNext(w)

MemoryInit == Init /\ backend = "memory" /\ sched = "threads"

MemorySpec == MemoryInit /\ [][MemoryStep]_vars

\* ---------------------------------------------------------- properties
\* write n is the only write to its key
OnlyWrite(n) == \A m \in 1..Len(puts) : puts[m].key = puts[n].key => m = n

\* the response of a poll or take in which no store operation failed
IsTake(r) == r.op \in {"status", "take"} /\ ~ r.failed

\* C1: at-most-once delivery through the status endpoint. After one
\* completion for a session and no further one, at most one status poll
\* answers "completed" with the payload, however the polls' cache read and
\* cache delete interleave.
C1_AtMostOnceStatus ==
  backend = "redis" =>
    \A n \in 1..Len(puts) : OnlyWrite(n) => deliv[n] <= 1

\* C2: exactly-once on InMemoryAuthStore. After exactly one set(k, p, ttl),
\* of the workers that concurrently take k (get(k), then delete(k)) no more
\* than one obtains p.
C2_ExactlyOnceLocal ==
  backend = "memory" =>
    \A n \in 1..Len(puts) : OnlyWrite(n) => deliv[n] < 2

\* C3: round trip. A take of k that follows a write of p to k, the entry
\* not taken, deleted, overwritten or expired since, finds an entry; and
\* what a take finds is exactly the payload of the write it read: the
\* status poll answers "completed" with the credential token and the user
\* data that were posted.
C3_RoundTrip ==
  IsTake(last) =>
    /\ ~ last.owed
    /\ last.found =>
         /\ last.g > 0
         /\ puts[last.g].key = last.key
         /\ last.payload = Body(last.g)
         /\ last.op = "status" => last.status = "completed" /\ last.success = TRUE

\* a status poll handed out the first credential posted for sess-1
C3_Witness ==
  /\ last.op = "status"
  /\ last.key = "sess-1"
  /\ last.status = "completed"
  /\ last.payload = Body(1)
  /\ last.g = 1

\* C4: no expired delivery. A take never hands out an entry whose expiry
\* instant (insertion time + ttl) was reached when the take checked it,
\* purged or not.
C4_NoExpiredDelivery == (IsTake(last) /\ last.found) => last.fresh

\* a get found nothing for a key whose entry is still in both dicts, its
\* expiry instant reached
C4_Witness ==
  /\ last.op = "take"
  /\ ~ last.found
  /\ last.form = "return"
  /\ dict_has(store, last.key)
  /\ dict_has(expiry, last.key)
  /\ ~ (now < expiry[last.key])
  /\ LastPut(last.key) \notin gone

\* C5: last write wins. What a take of k finds is never the payload of a
\* write to k that had been overwritten when the take read the entry.
C5_LastWriteWins ==
  (IsTake(last) /\ last.found) =>
    \A n \in 1..Len(puts) :
      (puts[n].key = last.key /\ n < last.g) => last.payload # Body(n)

\* a take found the second payload written to its key, the first one never
\* taken nor deleted
C5_Witness ==
  /\ IsTake(last)
  /\ last.found
  /\ last.g = 2
  /\ puts[1].key = last.key
  /\ last.payload = Body(2)
  /\ deliv[1] = 0
  /\ 1 \notin gone

\* what a lookup of key k would find now: the live entry's value, if any
LiveView(k) ==
  IF backend = "redis"
  THEN IF redis_live(cache_key(k)) THEN <<cache[cache_key(k)].value>> ELSE <<>>
  ELSE IF dict_has(store, k) /\ dict_has(expiry, k) /\ not_expired(now, expiry[k])
       THEN <<store[k]>> ELSE <<>>

\* what the store physically holds for key k
Held(k) ==
  <<cache[cache_key(k)],
    IF dict_has(store, k) THEN <<store[k]>> ELSE <<>>,
    IF dict_has(expiry, k) THEN <<expiry[k]>> ELSE <<>>>>

\* the entry of the latest write to k is gone: taken or deleted
Consumed(k) == LastPut(k) > 0 /\ LastPut(k) \in gone

\* this step is a step of worker w's lookup in a take of key k: the poll's
\* cache read answering "pending", or a step of InMemoryAuthStore.get (its
\* sweep included) up to its return
LookupStep(w, k) ==
  \/ /\ backend = "redis"
     /\ pc[w] = "idle"
     /\ pc'[w] = "idle"
     /\ last'.op = "status"
     /\ last'.key = k
     /\ last'.status = "pending"
  \/ /\ backend = "memory"
     /\ pc[w] = "idle"
     /\ loc'[w].op = "take"
     /\ arg'[w].key = k
  \/ /\ backend = "memory"
     /\ loc[w].op = "take"
     /\ arg[w].key = k
     /\ pc[w] \in {"cleanup_delete", "cleanup_delete_expiry", "get_check",
                   "get_compare", "get_return"}
     /\ pc'[w] # pc[w]

\* C6: consumed stays consumed. A take never finds an entry whose payload
\* had already been handed out when the take read it (only a new write
\* brings a payload back); and the lookup of a take changes no live entry
\* of any key and, on a key whose entry is gone, nothing the store holds
\* for that key.
C6_ConsumedStaysConsumed ==
  /\ [](IsTake(last) /\ last.found => ~ last.late)
  /\ [][\A w \in Workers, k \in SessionIds :
          LookupStep(w, k) =>
            /\ \A j \in SessionIds : LiveView(j)' = LiveView(j)
            /\ Consumed(k) => Held(k)' = Held(k)]_vars

\* C6 as first stated: the same, with the lookup of a take on a key whose
\* entry is gone changing nothing at all in the cache or in the two dicts.
C6_NoStoreChange ==
  /\ [](IsTake(last) /\ last.found => ~ last.late)
  /\ [][\A w \in Workers, k \in SessionIds :
          (LookupStep(w, k) /\ Consumed(k)) =>
            <<cache, store, expiry>>' = <<cache, store, expiry>>]_vars

\* a take found nothing for a key whose latest payload had been handed out
C6_Witness ==
  /\ IsTake(last)
  /\ ~ last.found
  /\ last.form = "return"
  /\ last.key \in SessionIds
  /\ LatestDelivered(last.key)
  /\ Consumed(last.key)

\* C7: a take of a key that was never written finds nothing, and the status
\* poll for such a session answers success = true with status "pending",
\* whatever the other keys hold.
C7_NeverWritten ==
  (IsTake(last) /\ last.key \in SessionIds /\ LastPut(last.key) = 0) =>
    /\ ~ last.found
    /\ last.form = "return"
    /\ last.op = "status" => last.success = TRUE /\ last.status = "pending"

\* a poll for a session never written answered "pending" while the other
\* session's credential was live in the cache
C7_Witness ==
  /\ last.op = "status"
  /\ last.status = "pending"
  /\ last.key \in SessionIds
  /\ LastPut(last.key) = 0
  /\ \E j \in SessionIds \ {last.key} : redis_live(cache_key(j))

\* C8: a backend failure is never reported as "pending". A status poll
\* answers success = false exactly when one of its cache calls failed, and
\* then its status is not "pending".
C8_FailureNotPending ==
  last.op = "status" =>
    /\ last.failed <=> last.success = FALSE
    /\ last.failed => last.status # "pending"

\* a poll whose cache read found the credential and whose cache delete
\* failed answered with a failure
C8_Witness ==
  /\ last.op = "status"
  /\ last.failed
  /\ last.g > 0
  /\ last.success = FALSE

\* C9: both endpoints answer a backend failure by returning a response of
\* the shape {success: false, message, status_code} with status_code 500.
C9_FailureShape ==
  last.failed =>
    /\ last.form = "return"
    /\ last.success = FALSE
    /\ last.status_code = 500

\* C10: read-your-writes on InMemoryAuthStore with callers on threads. A get
\* that begins after set(k, p, ttl) returned, the entry not taken, deleted,
\* overwritten or expired since, returns p.
C10_ReadYourWrites ==
  (last.op = "take" /\ last.owed) => last.found

\* C11: no credential is lost to a poll. The entry a status poll removes
\* from the cache is the entry whose payload that poll hands out: a poll
\* answering "completed" removes no write but the one it read.
C11_PollRemovesWhatItReturns ==
  [][(last'.op = "status" /\ last'.found) =>
       (gone' \ gone) \subseteq {last'.g}]_vars

\* no call on the InMemoryAuthStore is in progress
Quiet == backend = "memory" => \A w \in Workers : pc[w] = "idle"

\* what a take of k beginning now would hand out: the payload, or nothing
Retrievable(k) ==
  IF LiveView(k) = <<>> THEN <<>>
  ELSE IF backend = "redis"
  THEN LET auth_data == json_loads(LiveView(k)[1])
       IN  <<[clerk_token |-> auth_data.clerk_token,
              user_data |-> auth_data.user_data]>>
  ELSE <<LiveView(k)[1]>>

\* write n overwrote an earlier write to its key
Overwrites(n) == \E m \in 1..(n - 1) : puts[m].key = puts[n].key

\* C12: overwrite restarts the clock. When a write to k follows an earlier
\* write to k, then as long as no delete or take removed the entry, k is
\* retrievable with the later payload at every instant before the later
\* write's time + ttl, also past the earlier write's time + ttl, and is not
\* retrievable from the later write's time + ttl on; and the overwriting
\* step replaces the payload in place, removing nothing.
C12_OverwriteRestartsClock ==
  /\ [](\A k \in SessionIds :
          LET n == LastPut(k)
          IN  (Quiet /\ n > 0 /\ Overwrites(n) /\ n \notin gone) =>
                Retrievable(k) = IF now < Expires(n) THEN <<Body(n)>> ELSE <<>>)
  /\ [][\A k \in SessionIds :
          (LastPut(k)' # LastPut(k) /\ LastPut(k) > 0) =>
             /\ gone' = gone
             /\ IF backend = "redis"
                THEN Retrievable(k)' = <<Body(LastPut(k)')>>
                ELSE dict_has(store', k) /\ store'[k] = Body(LastPut(k)')]_vars

\* after sess-1 was written twice and never taken, its entry outlives the
\* first write's expiry instant carrying the second payload
C12_Witness ==
  /\ Len(puts) = 2
  /\ puts[1].key = "sess-1"
  /\ puts[2].key = "sess-1"
  /\ gone = {}
  /\ deliv = <<0, 0>>
  /\ Quiet
  /\ Expires(1) <= now
  /\ now < Expires(2)
  /\ Retrievable("sess-1") = <<Body(2)>>

\* the step belongs to an operation on key j: a write to j, or a step of a
\* call whose key argument is j
OnKey(j) ==
  \/ Len(puts') > Len(puts) /\ puts'[Len(puts')].key = j
  \/ \E w \in Workers :
       /\ <<pc[w], arg[w], loc[w]>>' # <<pc[w], arg[w], loc[w]>>
       /\ arg[w].key = j \/ arg'[w].key = j

\* C13: keys are independent. A step of a write, take or delete on one key,
\* the sweep it runs included, changes neither the payload nor the expiry of
\* a live entry of another key, and changes for no other key what a take
\* would hand out.
C13_KeysIndependent ==
  [][\A j \in SessionIds :
       ~ OnKey(j) =>
         /\ LiveView(j) # <<>> => Held(j)' = Held(j)
         /\ now' = now => LiveView(j)' = LiveView(j)]_vars

\* a get of one key swept that key's expired entry out of both dicts while
\* the other key held a live entry
C13_Witness ==
  /\ backend = "memory"
  /\ last.op = "take"
  /\ last.form = "return"
  /\ ~ last.found
  /\ LastPut(last.key) > 0
  /\ LastPut(last.key) \notin gone
  /\ ~ dict_has(store, last.key)
  /\ ~ dict_has(expiry, last.key)
  /\ \E j \in SessionIds \ {last.key} : LiveView(j) = <<Body(LastPut(j))>>

\* C14: delete is unconditional and idempotent. delete(k) never raises,
\* whichever of the two dicts hold k; its first pop leaves k out of store and
\* its second leaves k out of expiry, each changing nothing else and nothing
\* at all when k was absent (so a repeated delete changes nothing); once it
\* returned, get(k) finds nothing, and with the store's calls run one at a
\* time k is in neither dict.
C14_DeleteIdempotent ==
  /\ [](last.op = "delete" =>
          /\ last.form = "return"
          /\ ~ dict_has(expiry, last.key)
          /\ LiveView(last.key) = <<>>
          /\ sched = "loop" => ~ dict_has(store, last.key))
  /\ [][\A w \in Workers :
          /\ (pc'[w] = "delete_expiry" /\ pc[w] # "delete_expiry") =>
               /\ ~ dict_has(store', arg'[w].key)
               /\ expiry' = expiry
               /\ ~ dict_has(store, arg'[w].key) => store' = store
          /\ (pc[w] = "delete_expiry" /\ pc'[w] # "delete_expiry") =>
               /\ ~ dict_has(expiry', arg[w].key)
               /\ store' = store
               /\ ~ dict_has(expiry, arg[w].key) => expiry' = expiry]_vars

\* a delete(k) popped k from store while a set(k) of another caller had
\* written store[k] but not yet expiry[k]: k was in one dict only
C14_Witness ==
  \E w, v \in Workers :
    /\ pc[w] = "delete_expiry"
    /\ loc[w].op = "delete"
    /\ pc[v] = "set_expiry"
    /\ arg[v].key = arg[w].key
    /\ ~ dict_has(store, arg[w].key)
    /\ ~ dict_has(expiry, arg[w].key)

\* the positions inside the loop of _cleanup_expired
SweepPcs == {"cleanup_delete", "cleanup_delete_expiry"}

\* worker w runs the scan of _cleanup_expired in this step
ScanStep(w) ==
  /\ pc'[w] # pc[w]
  /\ pc[w] = "cleanup_scan" \/ (pc[w] = "idle" /\ loc'[w].op = "take")

\* key k leaves one of the two dicts in this step
Purged(k) ==
  \/ dict_has(store, k) /\ ~ dict_has(store', k)
  \/ dict_has(expiry, k) /\ ~ dict_has(expiry', k)

\* C15: the lazy sweep removes exactly the expired entries. Every set and
\* every get runs the scan; the scan at instant now selects exactly the keys
\* whose expiry is strictly before now; the sweep then pops each selected
\* key, and nothing else, from store and from expiry and ends only when none
\* is left; a key it pops is never one get would still return; and a key
\* leaves a dict only in a step of a sweep or of a delete, never by the
\* clock alone.
C15_SweepExact ==
  [][/\ \A w \in Workers :
          /\ (pc[w] = "set_expiry" /\ pc'[w] # pc[w]) => pc'[w] = "cleanup_scan"
          /\ (backend = "memory" /\ pc[w] = "idle" /\ loc'[w].op = "take") =>
               ScanStep(w)
          /\ ScanStep(w) =>
               LET E == { k \in DOMAIN expiry : expiry[k] < now }
               IN  /\ <<store, expiry>>' = <<store, expiry>>
                   /\ IF E = {} THEN pc'[w] \notin SweepPcs
                      ELSE pc'[w] = "cleanup_delete" /\ loc'[w].expired_keys = E
          /\ (pc[w] = "cleanup_delete" /\ pc'[w] # pc[w]) =>
               /\ pc'[w] = "cleanup_delete_expiry"
               /\ loc'[w].cur \in loc[w].expired_keys
               /\ loc'[w].expired_keys = loc[w].expired_keys \ {loc'[w].cur}
               /\ dict_has(expiry, loc'[w].cur)
               /\ expiry[loc'[w].cur] < now
               /\ ~ not_expired(now, expiry[loc'[w].cur])
               /\ DOMAIN store' = DOMAIN store \ {loc'[w].cur}
               /\ expiry' = expiry
          /\ (pc[w] = "cleanup_delete_expiry" /\ pc'[w] # pc[w]) =>
               /\ DOMAIN expiry' = DOMAIN expiry \ {loc[w].cur}
               /\ store' = store
               /\ pc'[w] \in SweepPcs <=> loc[w].expired_keys # {}
     /\ \A k \in SessionIds :
          Purged(k) =>
            \E w \in Workers :
              /\ pc'[w] # pc[w]
              /\ \/ pc[w] \in SweepPcs /\ (loc'[w].cur = k \/ loc[w].cur = k)
                 \/ (pc'[w] = "delete_expiry" \/ pc[w] = "delete_expiry")
                    /\ (arg[w].key = k \/ arg'[w].key = k)]_vars

\* a set's sweep removed the other key's entry, expired and never deleted,
\* from both dicts
C15_Witness ==
  /\ last.op = "set"
  /\ last.form = "return"
  /\ \E j \in SessionIds \ {last.key} :
       /\ LastPut(j) > 0
       /\ LastPut(j) \notin gone
       /\ Expires(LastPut(j)) < now
       /\ ~ dict_has(store, j)
       /\ ~ dict_has(expiry, j)
  /\ LiveView(last.key) # <<>>

\* C16: parallel-mapping invariant. Whenever no call on the
\* InMemoryAuthStore is in progress, store and expiry hold exactly the same
\* keys.
C16_ParallelMappings ==
  (backend = "memory" /\ \A w \in Workers : pc[w] = "idle") =>
    DOMAIN store = DOMAIN expiry

\* no call is in progress after writes to both keys, a sweep or delete has
\* removed one key from both dicts and the other is still held in both
C16_Witness ==
  /\ backend = "memory"
  /\ \A w \in Workers : pc[w] = "idle"
  /\ Len(puts) = 2
  /\ \E j, k \in SessionIds :
       /\ LastPut(j) > 0
       /\ ~ dict_has(store, j)
       /\ ~ dict_has(expiry, j)
       /\ LastPut(k) > 0
       /\ dict_has(store, k)
       /\ dict_has(expiry, k)

\* C17: a failed status poll consumes nothing. The step in which a status
\* poll answers success = false leaves the cache as it was: the entry of the
\* session keeps its payload and its expiry.
C17_FailedPollKeepsEntry ==
  [][(last'.op = "status" /\ last'.success = FALSE) =>
       \A k \in CacheKeys :
         /\ cache'[k].expire_at = cache[k].expire_at
         /\ cache[k] # NoEntry => cache'[k].value = cache[k].value]_vars

\* C18: pending is left only by the listed transitions. A key whose entry is
\* retrievable stops being retrievable only because its ttl elapsed
\* (expired), because a successful take of the key removed it (consumed), or
\* because a delete call removed it (absent); an overwriting write leaves it
\* retrievable.
C18_PendingLeftAsListed ==
  [][\A k \in SessionIds :
       (Retrievable(k) # <<>> /\ Retrievable(k)' = <<>>) =>
          \/ now' # now
          \/ last'.op \in {"status", "take"} /\ last'.found /\ last'.key = k
          \/ \E w \in Workers :
               /\ pc[w] # "delete_expiry"
               /\ pc'[w] = "delete_expiry"
               /\ arg'[w].key = k]_vars

\* expiry needs no cancellation: from the expiry instant of the latest write
\* to a key on, a take of the key finds nothing, whether or not the entry was
\* purged (so an abandoned entry is unretrievable for good once the clock
\* has passed its expiry)
ExpiredUnretrievable ==
  \A k \in SessionIds :
    (Quiet /\ LastPut(k) > 0 /\ Expires(LastPut(k)) <= now) =>
      Retrievable(k) = <<>>

====
